---- MODULE Spec2Model ----
(***************************************************************************)
(* Read-through cache of graphql_schema.py: the three list resolvers       *)
(* (customers, products, invoices), the three by-id resolvers built on     *)
(* them, and the CreateCustomer mutation with its cache invalidation.      *)
(*                                                                         *)
(* Each request is one action: the whole resolver / mutation body,         *)
(* including its try/except.  The cache manager and the GoManage client    *)
(* are collaborators taken from info.context; a call on either may raise.  *)
(* Strings are sequences of one-character strings, so that lower(),        *)
(* substring search, str() and the f-string of the cache key are computed. *)
(***************************************************************************)
EXTENDS Integers, Sequences, FiniteSets, TLC

\* ------------------------------------------------------------------ bounds

\* Requests (fetch, fetchById, create) handled in one behaviour.
MaxReq == 2

\* Clock ticks in one behaviour.
MaxTicks == 4

\* ------------------------------------------------------- python primitives

\* Python's None where a string is expected.
None == <<"None">>

\* Truthiness of an optional string: None and '' are falsy.
Truthy(x) == x # None /\ x # <<>>

\* Truthiness of a list: [] is falsy.
NonEmpty(xs) == Len(xs) > 0

\* str.lower() on one character.
LowerCh(ch) ==
    CASE ch = "A" -> "a"
      [] ch = "B" -> "b"
      [] ch = "L" -> "l"
      [] OTHER -> ch

\* str.lower()
Lower(s) == [i \in 1..Len(s) |-> LowerCh(s[i])]

\* Python's `sub in s` on strings.
Contains(sub, s) ==
    \E i \in 0..(Len(s) - Len(sub)) : SubSeq(s, i + 1, i + Len(sub)) = sub

\* `(x or '')`
OrEmpty(x) == IF Truthy(x) THEN x ELSE <<>>

Digits == <<"0", "1", "2", "3", "4", "5", "6", "7", "8", "9">>

\* str(n) / f"{n}" of a non-negative integer.
RECURSIVE Str(_)
Str(n) == IF n < 10 THEN <<Digits[n + 1]>> ELSE Str(n \div 10) \o <<Digits[(n % 10) + 1]>>

\* -------------------------------------------------------------- resources

Classes == {"Customer", "Product", "Invoice"}

\* The literal that starts each resolver's cache key.
Prefix(c) ==
    CASE c = "Customer" -> <<"c", "u", "s", "t", "o", "m", "e", "r", "s">>
      [] c = "Product" -> <<"p", "r", "o", "d", "u", "c", "t", "s">>
      [] c = "Invoice" -> <<"i", "n", "v", "o", "i", "c", "e", "s">>

All == <<"a", "l", "l">>

\* A resolver charging every class the invoices' TTL.
ttl_flat(c) == 1800

\* The ttl each resolver passes to cache_manager.set.
ttl(c) ==
    CASE c = "Customer" -> 3600
      [] c = "Product" -> 7200
      [] c = "Invoice" -> 1800

\* A key that leaves the search term out.
cache_key_no_term(c, limit, search) == Prefix(c) \o <<"_">> \o Str(limit) \o <<"_">> \o All

\* f"customers_{limit}_{search or 'all'}" and its two siblings.
cache_key(c, limit, search) ==
    Prefix(c) \o <<"_">> \o Str(limit) \o <<"_">> \o (IF Truthy(search) THEN search ELSE All)

\* ---------------------------------------------------------------- filters

\* Matching the term as typed, without lower().
Matches_case_sensitive(c, r, search) ==
    CASE c = "Customer" ->
           \/ Contains(search, Lower(OrEmpty(r.business_name)))
           \/ Contains(search, Lower(OrEmpty(r.vat_number)))
           \/ Contains(search, Lower(Str(r.customer_id)))
      [] c = "Product" ->
           \/ Contains(search, Lower(OrEmpty(r.reference)))
           \/ Contains(search, Lower(OrEmpty(r.description)))
      [] OTHER -> TRUE

\* The condition of the list comprehension that filters by search.
Matches(c, r, search) ==
    LET search_lower == Lower(search) IN
    CASE c = "Customer" ->
           \/ Contains(search_lower, Lower(OrEmpty(r.business_name)))
           \/ Contains(search_lower, Lower(OrEmpty(r.vat_number)))
           \/ Contains(search_lower, Lower(Str(r.customer_id)))
      [] c = "Product" ->
           \/ Contains(search_lower, Lower(OrEmpty(r.reference)))
           \/ Contains(search_lower, Lower(OrEmpty(r.description)))
      [] OTHER -> TRUE

\* `if search and xs: xs = [x for x in xs if ...]`; resolve_invoices has none.
Filter(c, xs, search) ==
    IF c # "Invoice" /\ Truthy(search) /\ NonEmpty(xs)
    THEN LET Keep(r) == Matches(c, r, search) IN SelectSeq(xs, Keep)
    ELSE xs

\* ------------------------------------------------------------ environment

\* What the GoManage backend holds when the service starts.
Customers0 ==
    << [customer_id |-> 1, business_name |-> <<"A", "b">>, vat_number |-> <<"B", "2">>],
       [customer_id |-> 12, business_name |-> None, vat_number |-> <<"a">>],
       [customer_id |-> 3, business_name |-> <<"b">>, vat_number |-> None] >>

Products0 ==
    << [product_id |-> "p1", reference |-> <<"A", "1">>, description |-> None],
       [product_id |-> "p2", reference |-> <<"b">>, description |-> <<"b", "a">>],
       [product_id |-> "p3", reference |-> <<"b">>, description |-> <<"1">>] >>

Invoices0 ==
    << [invoice_id |-> 1, reference |-> <<"a">>, date |-> <<"1">>],
       [invoice_id |-> 2, reference |-> <<"b">>, date |-> <<"2">>],
       [invoice_id |-> 3, reference |-> <<"A">>, date |-> <<"3">>] >>

\* The requests the facade sends.
LimitsOf(c) ==
    CASE c = "Customer" -> {2, 100, 1000}
      [] c = "Product" -> {2, 100}
      [] c = "Invoice" -> {50, 1000}
TermsOf(c) ==
    CASE c = "Customer" -> {None, <<"a">>, <<"A">>, <<"1">>}
      [] c = "Product" -> {None, <<"a">>, <<"A">>}
      [] c = "Invoice" -> {None, <<"2">>}
Ids(c) == IF c = "Product" THEN {"p2", "p9"} ELSE {3, 9}
Payloads == {[business_name |-> <<"a", "B">>, vat_number |-> <<"1">>]}

\* createCustomer calls that leave out a required argument.
PartialPayloads ==
    {[business_name |-> None, vat_number |-> <<"1">>],
     [business_name |-> <<"a", "B">>, vat_number |-> None]}

\* Which call of a request fails, if any.
FetchFaults == {"none", "cache_get", "cache_set", "backend_raise", "backend_empty"}
CreateFaults == {"none", "backend_falsy", "backend_raise", "delete_first", "delete_second"}

\* Half an hour, in seconds: the step of the clock.
TickLen == 30 * 60

VARIABLES
    store,      \* the cache store: key -> [value, expiresAt]
    backend,    \* the backend's records per class
    now,        \* the clock, in seconds
    client,     \* info.context has a gomanage_client
    cache,      \* info.context has a cache_manager
    last,       \* the last request handled and what it did
    nreq,       \* requests handled
    nticks,     \* clock ticks taken
    threads,    \* requests in progress at the same time: where each one is
    oplog       \* the sets and deletes those requests issued, in order

vars == <<store, backend, now, client, cache, last, nreq, nticks, threads, oplog>>

\* ------------------------------------------------------------ cache store

\* cache_manager.get(key): the value of a live entry.
CacheGet(key) ==
    IF key \in DOMAIN store /\ now < store[key].expiresAt
    THEN [present |-> TRUE, value |-> store[key].value]
    ELSE [present |-> FALSE, value |-> <<>>]

\* cache_manager.set(key, value, ttl=seconds)
CacheSet(st, key, value, seconds) ==
    [k \in (DOMAIN st) \cup {key} |->
        IF k = key THEN [value |-> value, expiresAt |-> now + seconds] ELSE st[k]]

\* cache_manager.delete(key)
CacheDelete(st, key) == [k \in (DOMAIN st) \ {key} |-> st[k]]

\* ---------------------------------------------------------------- backend

Take(xs, n) == SubSeq(xs, 1, IF n < Len(xs) THEN n ELSE Len(xs))

DateNum(d) == CHOOSE n \in 0..9 : Digits[n + 1] = d[1]

\* gomanage_client.get_customers(limit=), get_products(limit=),
\* get_invoices(limit=, from_date=)
BackendFetch(c, limit, term) ==
    IF c = "Invoice" /\ Truthy(term)
    THEN LET Since(r) == DateNum(r.date) >= DateNum(term)
         IN Take(SelectSeq(backend[c], Since), limit)
    ELSE Take(backend[c], limit)

\* What gomanage_client.create_customer adds to the backend.
BackendCreate(b, customer_data) ==
    [b EXCEPT !["Customer"] =
        Append(@, [customer_id |-> 20 + Len(@),
                   business_name |-> customer_data.business_name,
                   vat_number |-> customer_data.vat_number])]

\* ------------------------------------------------------------- resolvers

\* A resolver that goes on without looking for the backend client.
ClientMissing_unchecked == FALSE

\* `if not gomanage_client:`
ClientMissing == ~client

\* An except clause that lets the error through to the caller.
OnException_reraise(fallback) == [outcome |-> "exception", value |-> fallback]

\* `except Exception as e: logger.error(...); return <fallback>`
OnException(fallback) == [outcome |-> "value", value |-> fallback]

\* What one run of a list resolver did.  ret: what the caller gets;
\* st: the store afterwards; gets, sets, calls: cache_manager.get,
\* cache_manager.set and backend calls issued; hit: served from the cache;
\* fetched: what the backend returned; working: the list before filtering.
Did(ret, st, gets, sets, calls, hit, fetched, working) ==
    [ret |-> ret, st |-> st, gets |-> gets, sets |-> sets, calls |-> calls,
     hit |-> hit, fetched |-> fetched, working |-> working]

\* A resolver that never serves from the cache.
UseCached_never(cached_data) == FALSE

\* `if cached_data:`
UseCached(cached_data) == cached_data.present /\ NonEmpty(cached_data.value)

\* A resolver that stores without asking whether there is a cache manager.
ShouldStore_unguarded(xs) == NonEmpty(xs)

\* A resolver that caches whatever the backend returned, [] included.
ShouldStore_always(xs) == cache

\* `if cache_manager and customers:`
ShouldStore(xs) == cache /\ NonEmpty(xs)

\* A resolver that stores the filtered list.
Stored_filtered(c, xs, search) == Filter(c, xs, search)

\* The value handed to cache_manager.set: the list as fetched.
Stored(c, xs, search) == xs

\* resolve_customers / resolve_products / resolve_invoices.
\* fault names the call that raises (or, backend_empty, returns []).
ResolveList(c, limit, term, fault) ==
    LET key == cache_key(c, limit, term)
        cached_data == IF cache THEN CacheGet(key) ELSE [present |-> FALSE, value |-> <<>>]
        ngets == IF cache THEN 1 ELSE 0
        fetched == IF fault = "backend_empty" THEN <<>> ELSE BackendFetch(c, limit, term)
    IN
    IF ClientMissing
      THEN Did([outcome |-> "value", value |-> <<>>], store, 0, 0, 0, FALSE, <<>>, <<>>)
    ELSE IF cache /\ fault = "cache_get"
      THEN Did(OnException(<<>>), store, 1, 0, 0, FALSE, <<>>, <<>>)
    ELSE IF UseCached(cached_data)
      THEN Did([outcome |-> "value", value |-> Filter(c, cached_data.value, term)],
               store, ngets, 0, 0, TRUE, <<>>, cached_data.value)
    ELSE IF fault = "backend_raise"
      THEN Did(OnException(<<>>), store, ngets, 0, 1, FALSE, <<>>, <<>>)
    ELSE IF ShouldStore(fetched) /\ fault = "cache_set"
      THEN Did(OnException(<<>>), store, ngets, 1, 1, FALSE, fetched, fetched)
    ELSE IF ShouldStore(fetched)
      THEN Did([outcome |-> "value", value |-> Filter(c, fetched, term)],
               CacheSet(store, key, Stored(c, fetched, term), ttl(c)),
               ngets, 1, 1, FALSE, fetched, fetched)
    ELSE Did([outcome |-> "value", value |-> Filter(c, fetched, term)],
             store, ngets, 0, 1, FALSE, fetched, fetched)

\* The identifier field each by-id resolver compares.
IdOf(c, r) ==
    CASE c = "Customer" -> r.customer_id
      [] c = "Product" -> r.product_id
      [] c = "Invoice" -> r.invoice_id

\* `for x in xs: if x.get(<id field>) == id: return x` / `return None`,
\* the result as a list of at most one record.
FirstWithId(c, xs, id) ==
    LET Same(r) == IdOf(c, r) = id
        same == SelectSeq(xs, Same)
    IN IF NonEmpty(same) THEN <<same[1]>> ELSE <<>>

\* A by-id resolver that lists with the list resolvers' default limit.
ByIdLimit_default == 100

\* The limit resolve_customer / resolve_product / resolve_invoice list with.
ByIdLimit == 1000

\* --------------------------------------------------------------- mutation

\* 'customers_100_all' and 'customers_1000_all', as written in mutate.
customers_100_all == Prefix("Customer") \o <<"_", "1", "0", "0", "_">> \o All
customers_1000_all == Prefix("Customer") \o <<"_", "1", "0", "0", "0", "_">> \o All

\* A mutation that also clears the listing of a third limit.
Invalidated_third_limit ==
    <<customers_100_all, customers_1000_all,
      Prefix("Customer") \o <<"_", "2", "_">> \o All>>

\* A mutation that clears only the first of the two keys.
Invalidated_first_only == <<customers_100_all>>

\* The keys CreateCustomer.mutate deletes, in order.
Invalidated == <<customers_100_all, customers_1000_all>>

\* A mutation that answers success=True whatever the backend said.
Succeeded_always(result) == TRUE

\* `if result:` on what gomanage_client.create_customer returned.
Succeeded(result) == result

\* The store after deleting the first n keys of ks.
RECURSIVE DeleteAll(_, _, _)
DeleteAll(st, ks, n) == IF n = 0 THEN st ELSE CacheDelete(DeleteAll(st, ks, n - 1), ks[n])

\* What one run of CreateCustomer.mutate did.  creates: backend create
\* calls; applied: the backend took the customer; dels: cache_manager.delete
\* calls issued (the raising one included).
Mutated(outcome, success, message, st, applied, creates, dels) ==
    [outcome |-> outcome, success |-> success, message |-> message, st |-> st,
     applied |-> applied, creates |-> creates, dels |-> dels]

\* CreateCustomer.mutate.  fault names the call that raises (or,
\* backend_falsy, the create that returns a falsy result).
Mutate(customer_data, fault) ==
    LET result == fault # "backend_falsy"
        failing == CASE fault = "delete_first" -> 1
                     [] fault = "delete_second" -> 2
                     [] OTHER -> 0
        caught == OnException(<<>>)
    IN
    IF ClientMissing
      THEN Mutated("value", FALSE, "GoManage client no disponible", store, FALSE, 0, 0)
    ELSE IF fault = "backend_raise"
      THEN Mutated(caught.outcome, FALSE, "Error: ...", store, FALSE, 1, 0)
    ELSE IF ~Succeeded(result)
      THEN Mutated("value", FALSE, "Error creando cliente en GoManage", store, FALSE, 1, 0)
    ELSE IF cache /\ failing > 0 /\ failing <= Len(Invalidated)
      THEN Mutated(caught.outcome, FALSE, "Error: ...",
                   DeleteAll(store, Invalidated, failing - 1), result, 1, failing)
    ELSE IF cache
      THEN Mutated("value", TRUE, "Cliente creado exitosamente",
                   DeleteAll(store, Invalidated, Len(Invalidated)), result, 1, Len(Invalidated))
    ELSE Mutated("value", TRUE, "Cliente creado exitosamente", store, result, 1, 0)

\* The arguments mutate declares without a default: Arguments marks them
\* required=True and the signature takes them positionally.
Required == {"business_name", "vat_number"}

\* Whether a call supplies every required argument.
Bound(customer_data) == \A f \in Required : customer_data[f] # None

\* A createCustomer call.  One that leaves out a required argument is
\* refused before the body of mutate (and its try block) is entered: the
\* caller gets an error, not a CreateCustomer result.
CallMutate(customer_data, fault) ==
    IF Bound(customer_data)
    THEN Mutate(customer_data, fault)
    ELSE Mutated("exception", FALSE, "", store, FALSE, 0, 0)

\* ------------------------------------------------------------ the machine

\* Whether the run reaches the call that fault makes fail.
FetchFaultReached(c, limit, term, fault) ==
    LET miss == ~ResolveList(c, limit, term, "none").hit IN
    CASE fault = "none" -> TRUE
      [] fault = "cache_get" -> client /\ cache
      [] fault = "cache_set" -> client /\ cache /\ miss /\ NonEmpty(BackendFetch(c, limit, term))
      [] OTHER -> client /\ miss

CreateFaultReached(fault) ==
    CASE fault = "none" -> TRUE
      [] fault \in {"delete_first", "delete_second"} -> client /\ cache
      [] OTHER -> client

NoRequest ==
    [op |-> "none", cls |-> "none", limit |-> 0, term |-> None, id |-> 0, key |-> <<>>,
     fault |-> "none", outcome |-> "value", value |-> <<>>, success |-> FALSE,
     message |-> "", gets |-> 0, sets |-> 0, dels |-> 0, calls |-> 0, creates |-> 0,
     applied |-> FALSE, hit |-> FALSE, fetched |-> <<>>, working |-> <<>>, time |-> 0,
     before |-> <<>>, payload |-> [business_name |-> None, vat_number |-> None]]

\* The backend's records before any create.
Backend0 ==
    [c \in Classes |->
        CASE c = "Customer" -> Customers0
          [] c = "Product" -> Products0
          [] c = "Invoice" -> Invoices0]

Init ==
    /\ store = <<>>
    /\ backend = Backend0
    /\ now = 0
    /\ client \in BOOLEAN
    /\ cache \in BOOLEAN
    /\ last = NoRequest
    /\ nreq = 0
    /\ nticks = 0
    /\ threads = <<>>
    /\ oplog = <<>>

\* fetch(class, {limit, filter / fromDate}): one run of a list resolver.
Fetch(c, limit, term, fault) ==
    LET d == ResolveList(c, limit, term, fault) IN
    /\ nreq < MaxReq
    /\ FetchFaultReached(c, limit, term, fault)
    /\ store' = d.st
    /\ last' = [NoRequest EXCEPT
                  !.op = "fetch", !.cls = c, !.limit = limit, !.term = term,
                  !.key = cache_key(c, limit, term), !.fault = fault,
                  !.outcome = d.ret.outcome, !.value = d.ret.value,
                  !.gets = d.gets, !.sets = d.sets, !.calls = d.calls, !.hit = d.hit,
                  !.fetched = d.fetched, !.working = d.working, !.time = now,
                  !.before = store]
    /\ nreq' = nreq + 1
    /\ UNCHANGED <<backend, now, client, cache, nticks, threads, oplog>>

\* fetchById(class, id): resolve_customer / resolve_product / resolve_invoice.
\* self is taken to be a Query instance, as self.resolve_customers requires.
\* The list resolver returns a list whatever fails, and the scan of that list
\* raises nothing, so the by-id resolver's own except clause is never entered.
FetchById(c, id, fault) ==
    LET d == ResolveList(c, ByIdLimit, None, fault) IN
    /\ nreq < MaxReq
    /\ FetchFaultReached(c, ByIdLimit, None, fault)
    /\ store' = d.st
    /\ last' = [NoRequest EXCEPT
                  !.op = "fetchById", !.cls = c, !.limit = ByIdLimit, !.id = id,
                  !.key = cache_key(c, ByIdLimit, None), !.fault = fault,
                  !.outcome = d.ret.outcome,
                  !.value = FirstWithId(c, d.ret.value, id),
                  !.gets = d.gets, !.sets = d.sets, !.calls = d.calls, !.hit = d.hit,
                  !.fetched = d.fetched, !.working = d.working, !.time = now,
                  !.before = store]
    /\ nreq' = nreq + 1
    /\ UNCHANGED <<backend, now, client, cache, nticks, threads, oplog>>

\* create(Customer, payload): one run of CreateCustomer.mutate.
Create(customer_data, fault) ==
    LET m == CallMutate(customer_data, fault) IN
    /\ nreq < MaxReq
    /\ CreateFaultReached(fault)
    /\ fault # "none" => Bound(customer_data)
    /\ store' = m.st
    /\ backend' = IF m.applied THEN BackendCreate(backend, customer_data) ELSE backend
    /\ last' = [NoRequest EXCEPT
                  !.op = "create", !.cls = "Customer", !.fault = fault,
                  !.outcome = m.outcome, !.success = m.success, !.message = m.message,
                  !.dels = m.dels, !.creates = m.creates, !.applied = m.applied,
                  !.time = now, !.before = store, !.payload = customer_data]
    /\ nreq' = nreq + 1
    /\ UNCHANGED <<now, client, cache, nticks, threads, oplog>>

\* Time passes.
Tick ==
    /\ nticks < MaxTicks
    /\ now' = now + TickLen
    /\ nticks' = nticks + 1
    /\ UNCHANGED <<store, backend, client, cache, last, nreq, threads, oplog>>

DoFetch ==
    \E c \in Classes, fault \in FetchFaults :
        \E limit \in LimitsOf(c), term \in TermsOf(c) :
            Fetch(c, limit, term, fault)

DoFetchById ==
    \E c \in Classes, fault \in FetchFaults :
        \E id \in Ids(c) :
            FetchById(c, id, fault)

DoCreate ==
    \E customer_data \in Payloads, fault \in CreateFaults :
        Create(customer_data, fault)

Next == DoFetch \/ DoFetchById \/ DoCreate

\* Requests one after another, the clock standing still.
Spec == Init /\ [][Next]_vars

\* The default listings of each class, with time passing between requests.
TimedLimit == 100
TimedTerms(c) == IF c = "Invoice" THEN {None} ELSE {None, <<"a">>}
TimedFaults == FetchFaults

DoTimedFetch ==
    \E c \in Classes, fault \in TimedFaults :
        \E term \in TimedTerms(c) :
            Fetch(c, TimedLimit, term, fault)

DoTimedFetchById == \E c \in Classes : \E id \in Ids(c) : FetchById(c, id, "none")

DoTimedCreate == \E customer_data \in Payloads : Create(customer_data, "none")

NextTime == DoTimedFetch \/ DoTimedFetchById \/ DoTimedCreate \/ Tick

InitTime == Init /\ client

SpecTime == InitTime /\ [][NextTime]_vars

\* The context stops supplying a backend client.
LoseClient ==
    /\ nreq < MaxReq
    /\ client
    /\ client' = FALSE
    /\ UNCHANGED <<store, backend, now, cache, last, nreq, nticks, threads, oplog>>

DoPlainFetch ==
    \E c \in Classes : \E limit \in LimitsOf(c) : Fetch(c, limit, None, "none")

DoPlainFetchById == \E c \in Classes : \E id \in Ids(c) : FetchById(c, id, "none")

DoAnyCreate ==
    \E customer_data \in Payloads \cup PartialPayloads :
        \E fault \in {"none", "backend_falsy"} : Create(customer_data, fault)

NextDegraded == DoPlainFetch \/ DoPlainFetchById \/ DoAnyCreate \/ LoseClient

\* Requests whose context loses the backend client on the way, and create
\* calls with an argument left out.
SpecDegraded == InitTime /\ [][NextDegraded]_vars

\* The limits and the search terms / from_dates keys are derived for: no
\* term, the empty string, the literal "all", and terms that contain the
\* separator or a digit next to it.
KeyLimits == {1, 10, 100, 1000}
KeyTerms ==
    {None, <<>>, All, <<"A", "L", "L">>, <<"a", "l">>, <<"a">>, <<"1">>,
     <<"_">>, <<"0", "_", "a">>}

\* The first statement of a list resolver's try block: the cache key of the
\* request's arguments.
DeriveKey(c, limit, term) ==
    /\ last' = [NoRequest EXCEPT !.op = "key", !.cls = c, !.limit = limit,
                                 !.term = term, !.key = cache_key(c, limit, term)]
    /\ UNCHANGED <<store, backend, now, client, cache, nreq, nticks, threads, oplog>>

NextKey == \E c \in Classes, limit \in KeyLimits, term \in KeyTerms : DeriveKey(c, limit, term)

\* Key derivation alone, one request's arguments after another's.
InitKey == Init /\ client /\ cache

SpecKey == InitKey /\ [][NextKey]_vars

\* ---------------------------------------------- requests at the same time

\* Two resolve_customers requests and one createCustomer request whose cache
\* and backend calls interleave; nothing in the resolvers orders them.
Fetchers == {"f1", "f2"}
Writer == "w"
ConcurrentLimits == {100, 1000}
ConcurrentTerms == {None, <<"a">>}

\* A request that has not issued its first call.
Started(pc, limit, term) ==
    [pc |-> pc, limit |-> limit, term |-> term, hit |-> FALSE, calls |-> 0,
     sets |-> 0, dels |-> 0, applied |-> FALSE, success |-> FALSE,
     fetched |-> <<>>, value |-> <<>>]

InitConcurrent ==
    /\ store = <<>>
    /\ backend = Backend0
    /\ now = 0
    /\ client = TRUE
    /\ cache = TRUE
    /\ last = NoRequest
    /\ nreq = 0
    /\ nticks = 0
    /\ threads \in {[p \in Fetchers \cup {Writer} |->
                        CASE p = "f1" -> Started("get", l1, t1)
                          [] p = "f2" -> Started("get", l2, t2)
                          [] OTHER -> Started("create", 0, None)] :
                     l1 \in ConcurrentLimits, l2 \in ConcurrentLimits,
                     t1 \in ConcurrentTerms, t2 \in ConcurrentTerms}
    /\ oplog = <<>>

\* `cached_data = cache_manager.get(cache_key)` and `if cached_data:` with
\* the filtering and return of the hit branch.
GetStep(p) ==
    LET t == threads[p]
        cached_data == CacheGet(cache_key("Customer", t.limit, t.term))
    IN
    /\ p \in Fetchers /\ t.pc = "get"
    /\ threads' = [threads EXCEPT ![p] =
          IF UseCached(cached_data)
          THEN [t EXCEPT !.pc = "done", !.hit = TRUE,
                         !.value = Filter("Customer", cached_data.value, t.term)]
          ELSE [t EXCEPT !.pc = "backend"]]
    /\ UNCHANGED <<store, backend, now, client, cache, last, nreq, nticks, oplog>>

\* `customers = gomanage_client.get_customers(limit=limit)`
BackendStep(p) ==
    LET t == threads[p]
        fetched == BackendFetch("Customer", t.limit, t.term)
    IN
    /\ p \in Fetchers /\ t.pc = "backend"
    /\ threads' = [threads EXCEPT ![p] =
          IF ShouldStore(fetched)
          THEN [t EXCEPT !.pc = "set", !.calls = 1, !.fetched = fetched]
          ELSE [t EXCEPT !.pc = "done", !.calls = 1, !.fetched = fetched,
                         !.value = Filter("Customer", fetched, t.term)]]
    /\ UNCHANGED <<store, backend, now, client, cache, last, nreq, nticks, oplog>>

\* `cache_manager.set(cache_key, customers, ttl=3600)`, then the filtering
\* and the return.
SetStep(p) ==
    LET t == threads[p]
        key == cache_key("Customer", t.limit, t.term)
        stored == Stored("Customer", t.fetched, t.term)
    IN
    /\ p \in Fetchers /\ t.pc = "set"
    /\ store' = CacheSet(store, key, stored, ttl("Customer"))
    /\ oplog' = Append(oplog, [op |-> "set", by |-> p, key |-> key, value |-> stored])
    /\ threads' = [threads EXCEPT ![p] =
          [t EXCEPT !.pc = "done", !.sets = 1,
                    !.value = Filter("Customer", t.fetched, t.term)]]
    /\ UNCHANGED <<backend, now, client, cache, last, nreq, nticks>>

\* `result = gomanage_client.create_customer(customer_data)` answering truthy.
CreateStep(customer_data) ==
    LET t == threads[Writer] IN
    /\ t.pc = "create"
    /\ backend' = BackendCreate(backend, customer_data)
    /\ threads' = [threads EXCEPT ![Writer] =
          [t EXCEPT !.pc = IF Succeeded(TRUE) /\ cache THEN "delete" ELSE "done",
                    !.applied = TRUE, !.success = Succeeded(TRUE)]]
    /\ UNCHANGED <<store, now, client, cache, last, nreq, nticks, oplog>>

\* The next `cache_manager.delete(...)` of mutate; after the last one, the
\* return.
DeleteStep ==
    LET t == threads[Writer]
        i == t.dels + 1
    IN
    /\ t.pc = "delete"
    /\ store' = CacheDelete(store, Invalidated[i])
    /\ oplog' = Append(oplog, [op |-> "delete", by |-> Writer, key |-> Invalidated[i],
                               value |-> <<>>])
    /\ threads' = [threads EXCEPT ![Writer] =
          [t EXCEPT !.dels = i, !.pc = IF i = Len(Invalidated) THEN "done" ELSE "delete"]]
    /\ UNCHANGED <<backend, now, client, cache, last, nreq, nticks>>

NextConcurrent ==
    \/ \E p \in Fetchers : GetStep(p)
    \/ \E p \in Fetchers : BackendStep(p)
    \/ \E p \in Fetchers : SetStep(p)
    \/ \E customer_data \in Payloads : CreateStep(customer_data)
    \/ DeleteStep

SpecConcurrent == InitConcurrent /\ [][NextConcurrent]_vars

\* ================================================================ claims

\* A request was handled in this step.
Handled == nreq' = nreq + 1

\* The two requests of this step and the one before are the same fetch.
Identical(a, b) ==
    /\ a.op = "fetch" /\ b.op = "fetch"
    /\ a.cls = b.cls /\ a.limit = b.limit /\ a.term = b.term

\* C1: read-through.  With a working cache store, a fetch that starts from an
\* empty store and gets a non-empty list from the backend makes exactly one
\* backend call and exactly one set; an identical fetch that follows it while
\* the entry is in the store and unexpired makes no backend call and returns
\* the same record sequence.
C1_ReadThrough ==
    [][ (Handled /\ cache /\ last'.op = "fetch") =>
          /\ (store = <<>> /\ last'.fault = "none" /\ NonEmpty(last'.fetched))
                => (last'.calls = 1 /\ last'.sets = 1)
          /\ ( /\ Identical(last, last')
               /\ last.before = <<>> /\ last.fault = "none" /\ NonEmpty(last.fetched)
               /\ last.key \in DOMAIN store /\ now < store[last.key].expiresAt
               /\ last'.fault = "none" )
                => (last'.calls = 0 /\ last'.value = last.value) ]_vars

C1_Witness ==
    /\ nreq = 2 /\ last.op = "fetch" /\ last.fault = "none"
    /\ last.hit /\ last.calls = 0 /\ NonEmpty(last.value)
    /\ DOMAIN last.before = {last.key}
    /\ last.time > 0

\* C2: invalidation on write.  When create(Customer) returns success=true the
\* keys customers_100_all and customers_1000_all are not in the store; when
\* the backend create fails (falsy result or exception) create returns
\* success=false, issues no delete and leaves the store as it was.
C2_InvalidationOnWrite ==
    last.op = "create" =>
        /\ last.success =>
              /\ customers_100_all \notin DOMAIN store
              /\ customers_1000_all \notin DOMAIN store
        /\ last.fault \in {"backend_falsy", "backend_raise"} =>
              /\ ~last.success
              /\ last.dels = 0
              /\ store = last.before

C2_Witness ==
    /\ last.op = "create" /\ last.success
    /\ customers_1000_all \in DOMAIN last.before
    /\ customers_1000_all \notin DOMAIN store

\* C3: a successful create(Customer) leaves in the store no Customer entry
\* that was populated before it, whatever its limit and search term, so that
\* no later fetch is served a listing older than the create.  (An entry whose
\* list is still what the backend returns is let through: the violation shown
\* is an entry that lacks the customer just created.)
C3_NoEntryOlderThanCreate ==
    (last.op = "create" /\ last.success) =>
        \A limit \in LimitsOf("Customer"), term \in TermsOf("Customer") :
            LET k == cache_key("Customer", limit, term) IN
            (k \in DOMAIN store /\ k \in DOMAIN last.before)
                => store[k].value = BackendFetch("Customer", limit, term)

\* C4 as claimed: after a fetch with one filter term has populated the cache,
\* a fetch of the same class and limit with another filter term looks up the
\* same key, is a cache hit and makes no backend call.
C4_TermsShareOneEntry ==
    [][ ( /\ Handled /\ cache
          /\ last.op = "fetch" /\ last'.op = "fetch"
          /\ last.cls \in {"Customer", "Product"}
          /\ last.sets = 1 /\ last.fault = "none" /\ last'.fault = "none"
          /\ last'.cls = last.cls /\ last'.limit = last.limit
          /\ Truthy(last.term) /\ Truthy(last'.term) /\ last'.term # last.term )
        => (last'.key = last.key /\ last'.hit /\ last'.calls = 0) ]_vars

\* C4 as amended: the filter term is part of the key.  After a fetch with one
\* filter term has populated the cache, a fetch of the same class and limit
\* with another filter term looks up a different key, and unless that key has
\* an entry of its own it is a miss that makes one backend call; the same term
\* at two different limits uses two different keys.
C4_TermsHaveOwnEntries ==
    [][ ( /\ Handled /\ cache
          /\ last.op = "fetch" /\ last'.op = "fetch"
          /\ last.cls \in {"Customer", "Product"}
          /\ last.sets = 1 /\ last.fault = "none" /\ last'.fault = "none"
          /\ last'.cls = last.cls
          /\ Truthy(last.term) /\ Truthy(last'.term) )
        => /\ (last'.limit = last.limit /\ last'.term # last.term) =>
                /\ last'.key # last.key
                /\ last'.key \notin DOMAIN store => (~last'.hit /\ last'.calls = 1)
           /\ (last'.limit # last.limit /\ last'.term = last.term) =>
                last'.key # last.key ]_vars

C4_Witness ==
    /\ nreq = 2 /\ cache /\ last.op = "fetch" /\ last.fault = "none"
    /\ last.cls = "Product" /\ Truthy(last.term)
    /\ ~last.hit /\ last.calls = 1
    /\ \E t \in TermsOf(last.cls) :
          /\ Truthy(t) /\ t # last.term
          /\ cache_key(last.cls, last.limit, t) \in DOMAIN last.before

\* C5: no negative caching.  A fetch that misses and whose backend call
\* returns an empty list or raises issues no set and leaves the store as it
\* was; an identical fetch that follows it, its cache lookup completing, calls
\* the backend again.
C5_EmptyResultNotCached ==
    [][ (Handled /\ last'.op = "fetch") =>
          /\ (last'.calls = 1 /\ last'.fault \in {"backend_empty", "backend_raise"})
                => (last'.sets = 0 /\ store' = store)
          /\ ( /\ Identical(last, last')
               /\ last.calls = 1 /\ last.fault \in {"backend_empty", "backend_raise"}
               /\ last'.fault # "cache_get" )
                => last'.calls = 1 ]_vars

C5_Witness ==
    /\ nreq = 2 /\ cache /\ last.op = "fetch"
    /\ last.fault = "backend_empty" /\ last.calls = 1 /\ last.sets = 0
    /\ last.gets = 1 /\ store = <<>>

\* What the backend holds for the last request, filtered as the request asks.
BackendRecords == Filter(last.cls, BackendFetch(last.cls, last.limit, last.term), last.term)

\* C6: a failing cache store degrades to always-miss.  When the cache get
\* raises, the fetch goes on as a miss and calls the backend; when the cache
\* set raises, nothing is stored; both times the fetch returns the records
\* the backend gave, not an empty list.
C6_CacheFailureIsAMiss ==
    (last.op = "fetch" /\ last.fault \in {"cache_get", "cache_set"}) =>
        /\ last.outcome = "value"
        /\ last.calls = 1
        /\ store = last.before
        /\ last.value = BackendRecords

\* The faults that raise inside a request.
Raising == {"cache_get", "cache_set", "backend_raise", "delete_first", "delete_second"}

\* C7: no exception reaches the caller of a request that supplies its
\* required arguments.  Whatever call fails, fetch returns a
\* list (empty when a call raised), fetchById returns a record or nothing
\* (nothing when a call raised), and create returns success=false with a
\* message whenever a call raised or the backend create answered falsy.
C7_NoExceptionEscapes ==
    (last.op # "none" /\ (last.op = "create" => Bound(last.payload))) =>
        /\ last.outcome = "value"
        /\ last.op = "fetch" => (last.fault \in Raising => last.value = <<>>)
        /\ last.op = "fetchById" =>
              /\ Len(last.value) <= 1
              /\ last.fault \in Raising => last.value = <<>>
        /\ last.op = "create" =>
              (last.fault # "none" => (~last.success /\ last.message # ""))

C7_Witness ==
    /\ last.op = "create" /\ last.fault = "delete_second"
    /\ last.outcome = "value" /\ ~last.success
    /\ customers_100_all \in DOMAIN last.before

\* The expiry times the specification gives each class, in seconds.
SpecTtl(c) ==
    CASE c = "Customer" -> 60 * 60
      [] c = "Product" -> 2 * 60 * 60
      [] c = "Invoice" -> 30 * 60

\* C8: TTL expiry per class.  An entry a fetch populates at time t expires at
\* t + 3600 (Customer), t + 7200 (Product), t + 1800 (Invoice).  A fetch whose
\* cache lookup completes is served from the cache, with no backend call,
\* exactly when its key has an entry and the clock is before the entry's
\* expiry; otherwise it calls the backend once.  So an identical fetch that
\* follows the populating one is a hit before t + ttl and a miss, with a
\* backend call, at or after it.
C8_TtlExpiry ==
    [][ (Handled /\ cache /\ client /\ last'.op = "fetch" /\ last'.fault # "cache_get") =>
          /\ last'.sets = 1 /\ last'.fault = "none" =>
                /\ last'.key \in DOMAIN store'
                /\ store'[last'.key].expiresAt = now + SpecTtl(last'.cls)
          /\ last'.hit <=>
                (last'.key \in DOMAIN store /\ now < store[last'.key].expiresAt)
          /\ last'.calls = (IF last'.hit THEN 0 ELSE 1)
          /\ (Identical(last, last') /\ last.sets = 1 /\ last.fault = "none") =>
                /\ now < last.time + SpecTtl(last.cls) => (last'.hit /\ last'.calls = 0)
                /\ now >= last.time + SpecTtl(last.cls) => (~last'.hit /\ last'.calls = 1)
      ]_vars

C8_Witness ==
    /\ nreq = 2 /\ cache /\ last.op = "fetch" /\ last.cls = "Product"
    /\ last.fault = "none" /\ ~last.hit /\ last.calls = 1
    /\ last.key \in DOMAIN last.before
    /\ last.time = last.before[last.key].expiresAt

\* C9: graceful degradation.  With a backend client and no cache manager,
\* every fetch calls the backend exactly once, issues no cache get or set,
\* raises nothing and returns what the backend gave, filtered as asked ([]
\* when the backend call raised); a create whose backend create succeeds
\* returns success=true and issues no delete.
C9_NoCacheManager ==
    (client /\ ~cache) =>
        /\ store = <<>>
        /\ last.op = "fetch" =>
              /\ last.outcome = "value"
              /\ last.calls = 1 /\ last.gets = 0 /\ last.sets = 0
              /\ last.fault = "none" => last.value = BackendRecords
              /\ last.fault = "backend_empty" => last.value = <<>>
        /\ (last.op = "create" /\ last.applied) =>
              (last.outcome = "value" /\ last.success /\ last.dels = 0)

C9_Witness ==
    /\ client /\ ~cache /\ nreq = 2
    /\ last.op = "fetch" /\ last.cls = "Customer" /\ last.term = <<"1">>
    /\ last.calls = 1 /\ Len(last.value) = 2

\* t occurs in field f when case is ignored; an absent field holds nothing.
InField(t, f) ==
    /\ f # None
    /\ \E i \in 0..(Len(f) - Len(t)) :
          \A j \in 1..Len(t) : LowerCh(f[i + j]) = LowerCh(t[j])

\* The records the specification selects for filter term t.
Selected(c, r, t) ==
    IF c = "Product"
    THEN InField(t, r.reference) \/ InField(t, r.description)
    ELSE \/ InField(t, r.business_name)
         \/ InField(t, r.vat_number)
         \/ InField(t, Str(r.customer_id))

\* The spellings of term t that differ from it in case only.
Respellings(t) == {u \in {<<"a">>, <<"A">>, <<"1">>} : Lower(u) = Lower(t)}

\* C10: filter correctness.  A fetch of products or customers with filter
\* term t returns exactly the records of its working set (the cached list on
\* a hit, the fetched list on a miss) that hold t, case ignored, in reference
\* or description (Product), in business_name, vat_number or the digits of
\* customer_id (Customer), in the working set's order; filtering that working
\* set by any other spelling of t gives the same records.
C10_FilterCorrect ==
    ( /\ last.op = "fetch" /\ last.cls \in {"Customer", "Product"}
      /\ Truthy(last.term) /\ last.fault \notin Raising ) =>
        LET Sel(r) == Selected(last.cls, r, last.term) IN
        /\ last.value = SelectSeq(last.working, Sel)
        /\ \A u \in Respellings(last.term) :
              Filter(last.cls, last.working, u) = last.value

C10_Witness ==
    /\ last.op = "fetch" /\ last.cls = "Product" /\ last.term = <<"A">>
    /\ last.hit /\ Len(last.working) = 3 /\ Len(last.value) = 2

\* '<prefix>_1000_all', the key of the filter-absent listing at limit 1000.
ListingKey1000(c) == Prefix(c) \o <<"_", "1", "0", "0", "0", "_", "a", "l", "l">>

\* The first record of xs whose identifier is id, as a list of at most one.
RECURSIVE FirstMatch(_, _, _)
FirstMatch(c, xs, id) ==
    IF xs = <<>> THEN <<>>
    ELSE IF IdOf(c, Head(xs)) = id THEN <<Head(xs)>>
    ELSE FirstMatch(c, Tail(xs), id)

\* C11: fetchById(class, id) is served by the entry '<prefix>_1000_all' of the
\* filter-absent listing at limit 1000.  With a backend client, a cache
\* manager and no failing cache call: when that entry is in the store and
\* unexpired, fetchById makes no backend call; otherwise it makes exactly one
\* backend call, for the full list at limit 1000, and stores the list under
\* that key when it is not empty.  It returns the first record of the listing
\* whose identifier is id, or nothing when there is none.
C11_ByIdUsesListing1000 ==
    ( /\ last.op = "fetchById" /\ client /\ cache
      /\ last.fault \notin {"cache_get", "cache_set"} ) =>
        LET k == ListingKey1000(last.cls)
            live == k \in DOMAIN last.before /\ last.time < last.before[k].expiresAt
        IN
        /\ last.key = k
        /\ live => (last.calls = 0 /\ last.working = last.before[k].value)
        /\ ~live => last.calls = 1
        /\ (~live /\ last.fault = "none") =>
              /\ last.working = Take(backend[last.cls], 1000)
              /\ NonEmpty(last.working) =>
                    (k \in DOMAIN store /\ store[k].value = last.working)
        /\ last.value = FirstMatch(last.cls, last.working, last.id)

C11_Witness ==
    /\ nreq = 2 /\ cache /\ last.op = "fetchById" /\ last.cls = "Customer"
    /\ last.fault = "none" /\ last.calls = 1
    /\ ListingKey1000("Customer") \in DOMAIN last.before
    /\ last.time >= last.before[ListingKey1000("Customer")].expiresAt
    /\ Len(last.value) = 1

\* C13: with no backend client in the context, every fetch returns an empty
\* list, every fetchById returns nothing and create returns success=false with
\* a message; none of them issues a cache get, set or delete or a backend
\* call, and the store is left as it was, a live entry for the key included.
C13_BackendUnavailable ==
    [][ (Handled /\ ~client /\ (last'.op = "create" => Bound(last'.payload))) =>
          /\ last'.outcome = "value"
          /\ last'.op \in {"fetch", "fetchById"} => last'.value = <<>>
          /\ last'.op = "create" => (~last'.success /\ last'.message # "")
          /\ last'.gets = 0 /\ last'.sets = 0 /\ last'.dels = 0
          /\ last'.calls = 0 /\ last'.creates = 0
          /\ store' = store /\ backend' = backend ]_vars

C13_Witness ==
    /\ ~client /\ cache /\ last.op = "fetch" /\ last.value = <<>> /\ last.gets = 0
    /\ last.key \in DOMAIN store
    /\ last.time < store[last.key].expiresAt
    /\ NonEmpty(store[last.key].value)

\* C14: a create whose payload lacks business_name or vat_number returns a
\* result with success=false and a message, calls no backend create and
\* deletes no cache key.
C14_MissingFieldIsReported ==
    (last.op = "create" /\ ~Bound(last.payload)) =>
        /\ last.outcome = "value" /\ ~last.success /\ last.message # ""
        /\ last.creates = 0 /\ last.dels = 0

\* What does hold of such a create: nothing is called and nothing changes.
C14_MissingFieldCallsNothing ==
    (last.op = "create" /\ ~Bound(last.payload)) =>
        /\ last.creates = 0 /\ last.dels = 0 /\ ~last.applied
        /\ store = last.before

\* C15: what the store holds.  An entry appears or changes only in a fetch or
\* fetchById that missed the cache and completed one backend call and one
\* set, under that request's key; its value is the complete list the backend
\* returned for the class and limit (and from_date for invoices), not empty
\* and not filtered by the request's search term.
C15_StoreContent ==
    [][ \A k \in DOMAIN store' :
          (k \notin DOMAIN store \/ store'[k] # store[k]) =>
              /\ Handled
              /\ last'.op \in {"fetch", "fetchById"}
              /\ k = last'.key
              /\ ~last'.hit /\ last'.calls = 1 /\ last'.sets = 1
              /\ last'.outcome = "value"
              /\ NonEmpty(store'[k].value)
              /\ store'[k].value =
                    BackendFetch(last'.cls, last'.limit,
                                 IF last'.cls = "Invoice" THEN last'.term ELSE None) ]_vars

C15_Witness ==
    /\ last.op = "fetch" /\ last.cls = "Customer" /\ Truthy(last.term)
    /\ last.sets = 1 /\ last.key \in DOMAIN store
    /\ Len(last.value) < Len(store[last.key].value)

\* C16: a create changes no entry but those of 'customers_100_all' and
\* 'customers_1000_all'.  Whether it succeeds or fails, it issues at most
\* these two deletes, adds no entry, and every entry of another key
\* (products, invoices, customers of another limit or with a search term)
\* is in the store afterwards as it was before.
C16_InvalidationFrame ==
    last.op = "create" =>
        /\ last.dels <= 2 /\ last.sets = 0
        /\ DOMAIN store \subseteq DOMAIN last.before
        /\ \A k \in DOMAIN last.before :
              k \notin {customers_100_all, customers_1000_all} =>
                  (k \in DOMAIN store /\ store[k] = last.before[k])

C16_Witness ==
    /\ last.op = "create" /\ last.success /\ last.dels = 2
    /\ \E k \in DOMAIN store :
          /\ SubSeq(k, 1, 9) = Prefix("Customer")
          /\ store[k] = last.before[k]

\* C18: create reports the backend outcome faithfully.  success=true exactly
\* when the backend create returned a truthy result, that is, exactly when
\* the backend took the customer (with success=false it holds no new one);
\* and when the backend took the customer, both default keys are out of the
\* store when create returns.
C18_FaithfulOutcome ==
    (last.op = "create" /\ client /\ Bound(last.payload)) =>
        /\ last.success <=> last.applied
        /\ (last.applied /\ cache) =>
              /\ customers_100_all \notin DOMAIN store
              /\ customers_1000_all \notin DOMAIN store

\* The term as the key shows it: no term, the empty string and the literal
\* "all" all read 'all'.
KeyTerm(term) == IF term \in {None, <<>>, <<"a", "l", "l">>} THEN <<"a", "l", "l">> ELSE term

\* C19, as claimed: two requests have the same cache key only if they have
\* the same class, the same limit and the same search term / from_date, no
\* term being different from every term, "all" and "" included.
C19_KeyInjective ==
    [][ (last.op = "key" /\ last'.op = "key" /\ last'.key = last.key) =>
          /\ last'.cls = last.cls
          /\ last'.limit = last.limit
          /\ last'.term = last.term ]_vars

\* C19, as the code has it: two requests have the same cache key exactly when
\* they have the same class, the same limit and the same term once no term,
\* the empty string and the literal "all" are taken as one; keys of different
\* classes, of different limits, and of different terms otherwise never
\* collide.
C19_KeyInjectiveUpToAll ==
    [][ (last.op = "key" /\ last'.op = "key") =>
          ( last'.key = last.key <=>
              /\ last'.cls = last.cls
              /\ last'.limit = last.limit
              /\ KeyTerm(last'.term) = KeyTerm(last.term) ) ]_vars

C19_Witness ==
    /\ last.op = "key" /\ last.cls = "Customer" /\ last.limit = 100
    /\ last.term = <<"a", "l", "l">>
    /\ last.key = customers_100_all

\* The last set or delete issued on key k, as a list of at most one.
LastOn(k) ==
    LET on == {i \in 1..Len(oplog) : oplog[i].key = k} IN
    IF on = {} THEN <<>> ELSE <<oplog[CHOOSE i \in on : \A j \in on : j <= i]>>

\* C12: the duplicate-work race.  When two identical fetches running at the
\* same time have both missed the cache, each has made its own backend call
\* and its own set and returns the list it fetched itself (filtered by its
\* term); once both have finished, if the last call on their key was a set,
\* the store holds under the key exactly the value of that set, which is the
\* complete list one of the two fetched, never a mixture.
C12_DuplicateWorkRace ==
    \A p \in Fetchers, q \in Fetchers :
        ( /\ p # q
          /\ threads # <<>>
          /\ threads[p].pc = "done" /\ threads[q].pc = "done"
          /\ threads[p].limit = threads[q].limit /\ threads[p].term = threads[q].term
          /\ ~threads[p].hit /\ ~threads[q].hit ) =>
            LET k == cache_key("Customer", threads[p].limit, threads[p].term)
                lastop == LastOn(k)
            IN
            /\ threads[p].calls = 1 /\ threads[p].sets = 1
            /\ threads[p].value =
                  SelectSeq(threads[p].fetched,
                            LAMBDA r : threads[p].term = None
                                       \/ Selected("Customer", r, threads[p].term))
            /\ Len(lastop) = 1
            /\ lastop[1].op = "set" =>
                  /\ k \in DOMAIN store
                  /\ store[k].value = lastop[1].value
                  /\ store[k].value = threads[lastop[1].by].fetched
            /\ lastop[1].op = "delete" => k \notin DOMAIN store

\* Two identical fetches that both missed and fetched different lists (one
\* before and one after a create): the store holds the later set's list.
C12_Witness ==
    /\ threads # <<>>
    /\ threads["f1"].pc = "done" /\ threads["f2"].pc = "done"
    /\ threads["f1"].limit = 100 /\ threads["f2"].limit = 100
    /\ threads["f1"].term = <<"a">> /\ threads["f2"].term = <<"a">>
    /\ threads["f1"].sets = 1 /\ threads["f2"].sets = 1
    /\ threads["f1"].fetched # threads["f2"].fetched
    /\ Len(LastOn(cache_key("Customer", 100, <<"a">>))) = 1
    /\ LastOn(cache_key("Customer", 100, <<"a">>))[1].by = "f1"
    /\ store[cache_key("Customer", 100, <<"a">>)].value = threads["f1"].fetched
    /\ Len(threads["f1"].fetched) < Len(threads["f2"].fetched)

\* C17: no stale repopulation.  When a filter-absent fetch at limit 100 or
\* 1000 has run at the same time as a successful create, then once both have
\* completed, an entry under 'customers_100_all' / 'customers_1000_all' holds
\* a list fetched after the create was applied: the backend's list with the
\* created customer in it.
C17_NoStaleRepopulation ==
    ( /\ threads # <<>>
      /\ \A p \in Fetchers \cup {Writer} : threads[p].pc = "done"
      /\ threads[Writer].success ) =>
        \A limit \in ConcurrentLimits :
            LET k == cache_key("Customer", limit, None) IN
            k \in DOMAIN store => store[k].value = Take(backend["Customer"], limit)

====
